---------------------------- MODULE Spec2Model ----------------------------
(***************************************************************************)
(* apps.huny.dev: the catalog page (src/unnamed/part_000).                 *)
(*                                                                         *)
(* A JS string is a sequence of characters, each character a TLA+ string   *)
(* (the Hangul syllables of the two sentinels are written romanised, since *)
(* the tools read ASCII only).  A JS value that need not be a string (a    *)
(* parsed JSON value, a piece of React state) is a record [s, t].          *)
(***************************************************************************)
EXTENDS Integers, Sequences, FiniteSets, TLC

VARIABLES
    apps,        \* useState<AppItem[] | null>: NULL or a sequence of records
    loadError,   \* useState<string | null>: FALSE (null) or TRUE (the advisory text)
    cancelled,   \* the load effect's flag
    mounted,     \* the component is mounted
    loadPc,      \* position of the async load: "idle", "fetch", "json", "done"
    response,    \* the response in flight (the part of it not yet consumed)
    query, sort, view, category,   \* the four usePersistentState values (JS values)
    store,       \* localStorage: key -> text, or ABSENT
    storageUp,   \* FALSE: every localStorage call throws
    categories,  \* useMemo(..., [apps])
    crashed,     \* a render threw
    sessions,    \* how many times the page was opened
    urlIn, urlOut  \* argument and result of getSubdomainForSort

vars == <<apps, loadError, cancelled, mounted, loadPc, response, query, sort,
          view, category, store, storageUp, categories, crashed,
          sessions, urlIn, urlOut>>

-----------------------------------------------------------------------------
(* Bounds *)

MaxApps == 3      \* longest catalog
MaxLabels == 3    \* most labels in a host of the URL inputs
MaxSessions == 2  \* most times the page is opened

-----------------------------------------------------------------------------
(* Characters and strings *)

WhiteSpace == {" ", "\n"}

Digits == {"0", "1", "2"}

DigitVal(c) == CASE c = "0" -> 0 [] c = "1" -> 1 [] c = "2" -> 2 [] OTHER -> 0

UpperCase == {"A", "D", "H", "I", "S", "T"}

\* String.prototype.toLowerCase, one character
ToLowerChar(c) ==
    CASE c = "A" -> "a" [] c = "D" -> "d" [] c = "H" -> "h"
      [] c = "I" -> "i" [] c = "S" -> "s" [] c = "T" -> "t"
      [] OTHER -> c

toLowerCase(s) == [i \in 1..Len(s) |-> ToLowerChar(s[i])]

\* String.prototype.trim
trim(s) ==
    LET keep == {i \in 1..Len(s) : s[i] \notin WhiteSpace}
    IN  IF keep = {} THEN <<>>
        ELSE LET lo == CHOOSE i \in keep : \A j \in keep : i <= j
                 hi == CHOOSE i \in keep : \A j \in keep : i >= j
             IN  SubSeq(s, lo, hi)

\* String.prototype.includes
includes(hay, needle) ==
    \E i \in 1..(Len(hay) - Len(needle) + 1) :
        SubSeq(hay, i, i + Len(needle) - 1) = needle

\* String.prototype.endsWith
endsWith(s, suffix) ==
    /\ Len(suffix) <= Len(s)
    /\ SubSeq(s, Len(s) - Len(suffix) + 1, Len(s)) = suffix

startsWith(s, prefix) ==
    /\ Len(prefix) <= Len(s)
    /\ SubSeq(s, 1, Len(prefix)) = prefix

\* String.prototype.split(sep) for a one-character separator
split(s, sep) ==
    LET cuts == {0} \cup {i \in 1..Len(s) : s[i] = sep} \cup {Len(s) + 1}
        n == Cardinality(cuts) - 1
        cut[k \in 1..(n + 1)] ==
            CHOOSE c \in cuts : Cardinality({d \in cuts : d < c}) = k - 1
    IN  [k \in 1..n |-> SubSeq(s, cut[k] + 1, cut[k + 1] - 1)]

\* Array.prototype.join(sep) for a one-character separator
join(parts, sep) ==
    LET j[k \in 0..Len(parts)] ==
            IF k = 0 THEN <<>>
            ELSE IF k = 1 THEN parts[1]
            ELSE j[k - 1] \o <<sep>> \o parts[k]
    IN  j[Len(parts)]

-----------------------------------------------------------------------------
(* String.prototype.localeCompare(other, undefined, {numeric}) under the    *)
(* root collation at its default (tertiary) strength: strings are compared  *)
(* by their primary weights first (letters without their case; with         *)
(* numeric, a run of digits is one element weighed by its value, leading    *)
(* zeros skipped), and by case (lower before upper) when those are equal.   *)

\* The characters of the model in the order of their primary weights
\* (white space, punctuation, digits, Latin letters, Hangul syllables).
CollationOrder ==
    <<"\n", " ", "-", ":", ".", "/", "0", "1", "2",
      "a", "b", "c", "d", "e", "h", "i", "n", "o", "p", "s", "t", "u",
      "v", "x", "y", "z",
      "gu", "geu", "do", "di", "rup", "mun", "seo", "eops", "oh", "eum",
      "jeon", "che", "teol", "po">>

PrimaryWeight(c) ==
    CHOOSE i \in 1..Len(CollationOrder) : CollationOrder[i] = ToLowerChar(c)

\* The positions of a set of integers, ascending
Ascending(S) ==
    [k \in 1..Cardinality(S) |->
        CHOOSE c \in S : Cardinality({d \in S : d < c}) = k - 1]

\* The value of the run of digits of s that starts at position i
RunValue(s, i) ==
    LET last == CHOOSE j \in i..Len(s) :
                    /\ \A m \in i..j : s[m] \in Digits
                    /\ (j = Len(s) \/ s[j + 1] \notin Digits)
        val[j \in (i - 1)..last] ==
            IF j = i - 1 THEN 0 ELSE 10 * val[j - 1] + DigitVal(s[j])
    IN  val[last]

\* The collation elements of s: [k: primary weight, n: numeric value, u: upper case]
CollationElements(s, numeric) ==
    LET inRun(i) == numeric /\ s[i] \in Digits
        heads == {i \in 1..Len(s) :
                    ~inRun(i) \/ i = 1 \/ s[i - 1] \notin Digits}
        at == Ascending(heads)
    IN  [e \in 1..Len(at) |->
            IF inRun(at[e])
            THEN [n |-> RunValue(s, at[e]), k |-> PrimaryWeight("0"), u |-> 0]
            ELSE [n |-> 0, k |-> PrimaryWeight(s[at[e]]),
                  u |-> IF s[at[e]] \in UpperCase THEN 1 ELSE 0]]

\* -1, 0, 1: two sequences of integers, lexicographically
CompareSeq(x, y) ==
    LET m == IF Len(x) <= Len(y) THEN Len(x) ELSE Len(y)
        diff == {i \in 1..m : x[i] # y[i]}
    IN  IF diff = {}
        THEN (IF Len(x) < Len(y) THEN -1 ELSE IF Len(x) > Len(y) THEN 1 ELSE 0)
        ELSE LET i == CHOOSE d \in diff : \A d2 \in diff : d <= d2
             IN  IF x[i] < y[i] THEN -1 ELSE 1

localeCompare(a, b, numeric) ==
    LET ea == CollationElements(a, numeric)
        eb == CollationElements(b, numeric)
        \* a primary weight and a numeric value as one integer
        pa == [i \in 1..Len(ea) |-> ea[i].k * 1000 + ea[i].n]
        pb == [i \in 1..Len(eb) |-> eb[i].k * 1000 + eb[i].n]
        primary == CompareSeq(pa, pb)
    IN  IF primary # 0 THEN primary
        ELSE CompareSeq([i \in 1..Len(ea) |-> ea[i].u],
                        [i \in 1..Len(eb) |-> eb[i].u])

-----------------------------------------------------------------------------
(* URL utilities *)

HTTPS == <<"h", "t", "t", "p", "s", ":">>

ROOT_DOMAIN == <<"h", "u", "n", "y", ".", "d", "e", "v">>

\* new URL(url) with no base, for the URLs of the model: an https URL, or a
\* string with no scheme (which does not parse).  The parser drops line
\* breaks, strips surrounding spaces, skips the slashes after the scheme,
\* reads the host up to the next slash and lower-cases it; an empty host or
\* a space in the host fails.
ParseURL(url) ==
    LET s == trim(SelectSeq(url, LAMBDA c : c # "\n"))
        rest == SubSeq(s, Len(HTTPS) + 1, Len(s))
        nonSlash == {i \in 1..Len(rest) : rest[i] # "/"}
        from == IF nonSlash = {} THEN Len(rest) + 1
                ELSE CHOOSE i \in nonSlash : \A j \in nonSlash : i <= j
        after == {i \in from..Len(rest) : rest[i] = "/"}
        to == IF after = {} THEN Len(rest)
              ELSE (CHOOSE i \in after : \A j \in after : i <= j) - 1
        host == SubSeq(rest, from, to)
    IN  IF ~startsWith(toLowerCase(s), HTTPS) THEN [ok |-> FALSE, hostname |-> <<>>]
        ELSE IF host = <<>> \/ \E i \in 1..Len(host) : host[i] = " "
             THEN [ok |-> FALSE, hostname |-> <<>>]
        ELSE [ok |-> TRUE, hostname |-> toLowerCase(host)]

getHostname(url) ==
    LET parsed == ParseURL(url)
    IN  IF parsed.ok THEN parsed.hostname ELSE url

getSubdomainForSort(url) ==
    LET host == getHostname(url)
        parts == split(host, ".")
    IN  IF endsWith(host, ROOT_DOMAIN)
        THEN (IF Len(parts) >= 3 THEN parts[1] ELSE host)
        ELSE host

-----------------------------------------------------------------------------
(* Values *)

NULL == [s |-> <<>>, t |-> "null"]
Str(s) == [s |-> s, t |-> "str"]
Num(digits) == [s |-> digits, t |-> "num"]

\* apps === null
NoApps == [isNull |-> TRUE, list |-> <<>>]
Apps(list) == [isNull |-> FALSE, list |-> list]

\* a field an AppItem does not have
Absent == <<"<undefined>">>

ABSENT == <<"<no entry>">>     \* localStorage.getItem(key) === null
NoResult == [done |-> FALSE, value |-> <<>>]
NoResponse ==
    [ok |-> FALSE, kind |-> "none",
     body |-> [t |-> "invalid", items |-> <<>>, field |-> [t |-> "missing", items |-> <<>>]]]

UNCATEGORIZED == <<"geu", "rup", "eops", "eum">>
ALL == <<"jeon", "che">>

KEYS == {"appsHub:query", "appsHub:sort", "appsHub:view", "appsHub:category"}

SORT_NAME == <<"n", "a", "m", "e">>
SORT_CATEGORY == <<"c", "a", "t", "e", "g", "o", "r", "y">>
VIEW_GROUPED == <<"g", "r", "o", "u", "p", "e", "d">>
VIEW_FLAT == <<"f", "l", "a", "t">>

\* The state of the parts of the page a specification does not exercise
LoaderIdle ==
    /\ apps = NoApps /\ loadError = FALSE /\ cancelled = FALSE
    /\ mounted = FALSE /\ loadPc = "idle" /\ response = NoResponse
    /\ sessions = 0
UiIdle ==
    /\ query = Str(<<>>) /\ sort = Str(SORT_NAME)
    /\ view = Str(VIEW_GROUPED) /\ category = Str(ALL)
    /\ categories = <<ALL>> /\ crashed = FALSE
StoreIdle ==
    /\ store = [k \in KEYS |-> ABSENT] /\ storageUp = TRUE
UrlIdle == urlIn = <<>> /\ urlOut = NoResult

loaderVars == <<apps, loadError, cancelled, mounted, loadPc, response, sessions>>
uiVars == <<query, sort, view, category, categories, crashed>>
storeVars == <<store, storageUp>>
urlVars == <<urlIn, urlOut>>

-----------------------------------------------------------------------------
(* AppItem records: [title, url, description, category]; the thumbnail, *)
(* which only the card's markup reads, is left out.                     *)

Item(t, u, d, c) == [category |-> c, url |-> u, title |-> t, description |-> d]

Huny(sub) == HTTPS \o <<"/", "/">> \o sub \o <<".">> \o ROOT_DOMAIN

\* The built-in list, Hangul written one romanised syllable per character
FALLBACK_APPS ==
    << Item(<<"S", "t", "u", "d", "i", "o">>, Huny(<<"s", "t", "u", "d", "i", "o">>),
            <<"nae", " ", "wep", "aep", " ", "po", "teol", "(", "mi", "ri",
              "bo", "gi", ")">>,
            <<"po", "teol">>),
       Item(<<"S", "i", "t", "e", "s">>, Huny(<<"s", "i", "t", "e", "s">>),
            <<"do", "me", "in", " ", "ring", "keu", " ", "&", " ", "seol",
              "myeong", " ", "jip", "hap">>,
            <<"do", "gu">>),
       Item(<<"T", "T", "S", " ", "L", "a", "b">>, Huny(<<"t", "t", "s">>),
            <<"tek", "seu", "teu", "-", "eum", "seong", " ", "hap", "seong",
              " ", "gwan", "ryeon", " ", "sil", "heom", "sil">>,
            <<"A", "I", " ", "/", " ", "oh", "di", "oh">>),
       Item(<<"V", "C", " ", "D", "e", "m", "o">>, Huny(<<"v", "c">>),
            <<"V", "o", "i", "c", "e", " ", "C", "o", "n", "v", "e", "r",
              "s", "i", "o", "n", " ", "de", "mo">>,
            <<"A", "I", " ", "/", " ", "oh", "di", "oh">>),
       Item(<<"D", "o", "c", "s">>, Huny(<<"d", "o", "c", "s">>),
            <<"mun", "seo", "/", "me", "mo", " ", "deo", "mi">>,
            <<"mun", "seo">>),
       Item(<<"P", "l", "a", "y", "g", "r", "o", "u", "n", "d">>,
            Huny(<<"l", "a", "b">>),
            <<"gak", "jong", " ", "sil", "heom">>,
            Absent) >>

\* The records remote lists are made of.  Two categories differ only in
\* case (t2, T2), two order differently with and without numeric collation
\* (t2, t10), two differ only in a leading zero (t2, t02); two records have
\* the same sort key; one has no category and a url that does not parse.
AppPool ==
    { Item(<<"S", "t">>, Huny(<<"b">>), Absent, <<"t", "2">>),
      Item(<<"D">>, Huny(<<"a", "1", "0">>), <<"x">>, <<"t", "0", "2">>),
      Item(<<"S">>, Huny(<<"a">>), Absent, <<"t", "2">>),
      Item(<<"H">>, Huny(<<"a", "2">>) \o <<"/", "x">>, <<"y">>, <<"t", "1", "0">>),
      Item(<<"A", "i">>, Huny(<<"A">>), <<"x", " ", "y">>, <<"T", "2">>),
      Item(<<"x">>, <<"x", ".", "i", "o">>, Absent, Absent) }

\* The sequences of 1..n distinct records of AppPool
Catalogs(n) ==
    UNION { {c \in [1..k -> AppPool] : \A i, j \in 1..k : i # j => c[i] # c[j]} :
            k \in 1..n }

-----------------------------------------------------------------------------
(* The pipeline (part_000 lines 277-323) *)

\* a.category ?? UNCATEGORIZED
CategoryKey(a) == IF a.category = Absent THEN UNCATEGORIZED ELSE a.category

\* [a.title, a.description ?? "", a.url, host, sub].join("\n").toLowerCase()
Hay(a) ==
    toLowerCase(join(<<a.title,
                       IF a.description = Absent THEN <<>> ELSE a.description,
                       a.url, getHostname(a.url), getSubdomainForSort(a.url)>>,
                     "\n"))

\* The text predicate left out: every record passes
PassQuery_Off(a, q) == TRUE

\* q ? hay.includes(q) : true, with q = query.trim().toLowerCase()
PassQuery(a, q) == q # <<>> => includes(Hay(a), q)

\* category === ALL ? true : cat === category.toLowerCase()
PassCat(a, cat) ==
    cat = ALL \/ toLowerCase(CategoryKey(a)) = toLowerCase(cat)

Filtered(list, q, cat) ==
    SelectSeq(list, LAMBDA a : PassQuery(a, toLowerCase(trim(q))) /\ PassCat(a, cat))

\* The comparator of the name sort
CompareByName(a, b) ==
    localeCompare(toLowerCase(getSubdomainForSort(a.url)),
                  toLowerCase(getSubdomainForSort(b.url)), TRUE)

\* The comparator of the category sort
CompareByCategory(a, b) ==
    LET ca == toLowerCase(CategoryKey(a))
        cb == toLowerCase(CategoryKey(b))
    IN  IF ca # cb THEN localeCompare(ca, cb, TRUE) ELSE CompareByName(a, b)

CompareItems(mode, a, b) ==
    IF mode = SORT_NAME THEN CompareByName(a, b) ELSE CompareByCategory(a, b)

\* [...s].sort(compare): Array.prototype.sort is stable; it is modelled as
\* the insertion sort, each element put after the last one not greater.
SortItems(mode, s) ==
    LET place(done, x) ==
            LET le == {j \in 1..Len(done) : CompareItems(mode, done[j], x) <= 0}
                p == IF le = {} THEN 0 ELSE CHOOSE j \in le : \A m \in le : m <= j
            IN  SubSeq(done, 1, p) \o <<x>> \o SubSeq(done, p + 1, Len(done))
        ins[k \in 0..Len(s)] == IF k = 0 THEN <<>> ELSE place(ins[k - 1], s[k])
    IN  ins[Len(s)]

\* keys.sort((a, b) => a.localeCompare(b)), the same sort over strings
SortKeys(s) ==
    LET place(done, x) ==
            LET le == {j \in 1..Len(done) : localeCompare(done[j], x, FALSE) <= 0}
                p == IF le = {} THEN 0 ELSE CHOOSE j \in le : \A m \in le : m <= j
            IN  SubSeq(done, 1, p) \o <<x>> \o SubSeq(done, p + 1, Len(done))
        ins[k \in 0..Len(s)] == IF k = 0 THEN <<>> ELSE place(ins[k - 1], s[k])
    IN  ins[Len(s)]

\* The keys of a Set or Map filled in the order of s: each key once, in the
\* order of its first occurrence
InsertionOrder(s) ==
    SelectSeq([i \in 1..Len(s) |-> [k |-> s[i], first |-> \A j \in 1..(i - 1) : s[j] # s[i]]],
              LAMBDA e : e.first)

KeysOf(list) == [i \in 1..Len(list) |-> CategoryKey(list[i])]

\* useMemo normalized: the list (apps ?? []), the strings of the three states
Normalized(list, q, mode, cat) == SortItems(mode, Filtered(list, q, cat))

\* The options without the sort: the keys in the order of the catalog
Categories_Unsorted(list) ==
    LET keys == InsertionOrder(KeysOf(list))
    IN  <<ALL>> \o [i \in 1..Len(keys) |-> keys[i].k]

\* useMemo categories
Categories(list) ==
    LET keys == InsertionOrder(KeysOf(list))
    IN  <<ALL>> \o SortKeys([i \in 1..Len(keys) |-> keys[i].k])

\* The records grouped by the lower-cased key, as the category filter compares
Grouped_Folded(norm) ==
    LET first == InsertionOrder([i \in 1..Len(norm) |-> toLowerCase(CategoryKey(norm[i]))])
        keys == SortKeys([i \in 1..Len(first) |-> first[i].k])
    IN  [i \in 1..Len(keys) |->
            [items |-> SelectSeq(norm, LAMBDA a : toLowerCase(CategoryKey(a)) = keys[i]),
             key |-> keys[i]]]

\* useMemo grouped
Grouped(norm) ==
    LET first == InsertionOrder(KeysOf(norm))
        keys == SortKeys([i \in 1..Len(first) |-> first[i].k])
    IN  [i \in 1..Len(keys) |->
            [items |-> SelectSeq(norm, LAMBDA a : CategoryKey(a) = keys[i]),
             key |-> keys[i]]]

\* What the page derives from its state
list == apps.list                    \* apps ?? []
normalized == Normalized(list, query.s, sort.s, category.s)
grouped == Grouped(normalized)

-----------------------------------------------------------------------------
(* usePersistentState (part_000 lines 71-86) *)

QUOTE == "\""
BACKSLASH == "\\"

\* JSON.stringify of a string: quoted, with the quote, the backslash and
\* the line break escaped
Quoted(s) ==
    LET esc[k \in 0..Len(s)] ==
            IF k = 0 THEN <<>>
            ELSE esc[k - 1] \o
                 (IF s[k] = QUOTE THEN <<BACKSLASH, QUOTE>>
                  ELSE IF s[k] = BACKSLASH THEN <<BACKSLASH, BACKSLASH>>
                  ELSE IF s[k] = "\n" THEN <<BACKSLASH, "n">>
                  ELSE <<s[k]>>)
    IN  <<QUOTE>> \o esc[Len(s)] \o <<QUOTE>>

\* JSON.stringify(value) of a string, null or a number
JSONstringify(v) ==
    IF v.t = "str" THEN Quoted(v.s)
    ELSE IF v.t = "null" THEN <<"n", "u", "l", "l">>
    ELSE v.s

\* The characters between the quotes of a string literal, unescaped: a bare
\* quote or line break, and a backslash before anything but a quote, a
\* backslash or n, are syntax errors.
Unquoted(body) ==
    LET n == Len(body)
        un[i \in 1..(n + 2)] ==
            IF i > n THEN [s |-> <<>>, ok |-> TRUE]
            ELSE IF body[i] = BACKSLASH
                 THEN IF i + 1 <= n /\ body[i + 1] \in {QUOTE, BACKSLASH, "n"}
                      THEN [s |-> <<IF body[i + 1] = "n" THEN "\n" ELSE body[i + 1]>>
                                  \o un[i + 2].s,
                            ok |-> un[i + 2].ok]
                      ELSE [s |-> <<>>, ok |-> FALSE]
            ELSE IF body[i] \in {QUOTE, "\n"} THEN [s |-> <<>>, ok |-> FALSE]
            ELSE [s |-> <<body[i]>> \o un[i + 1].s, ok |-> un[i + 1].ok]
    IN  un[1]

\* JSON.parse(text) for the texts of the model: a string literal, null, or
\* digits, with white space around; anything else is a SyntaxError
\* (ok = FALSE).
JSONparse(text) ==
    LET s == trim(text)
        n == Len(s)
        asString == Unquoted(SubSeq(s, 2, n - 1))
    IN  IF s = <<"n", "u", "l", "l">> THEN [ok |-> TRUE, value |-> NULL]
        ELSE IF n >= 1 /\ \A i \in 1..n : s[i] \in Digits
             THEN [ok |-> TRUE, value |-> Num(s)]
        ELSE IF n >= 2 /\ s[1] = QUOTE /\ s[n] = QUOTE /\ asString.ok
             THEN [ok |-> TRUE, value |-> Str(asString.s)]
        ELSE [ok |-> FALSE, value |-> NULL]

\* usePersistentState's second argument, per key
Initial(key) ==
    CASE key = "appsHub:query" -> Str(<<>>)
      [] key = "appsHub:sort" -> Str(SORT_NAME)
      [] key = "appsHub:view" -> Str(VIEW_GROUPED)
      [] key = "appsHub:category" -> Str(ALL)

\* The useState initializer: raw ? JSON.parse(raw) : initial, and initial
\* when getItem or JSON.parse throws
ReadInitial(key) ==
    IF ~storageUp THEN Initial(key)
    ELSE IF store[key] = ABSENT \/ store[key] = <<>> THEN Initial(key)
    ELSE IF JSONparse(store[key]).ok THEN JSONparse(store[key]).value
    ELSE Initial(key)

\* The value written as it is, without JSON.stringify
Serialize_Raw(v) == v.s

\* The text the effect hands to localStorage.setItem
Serialize(v) == JSONstringify(v)

\* The effect: try { localStorage.setItem(key, JSON.stringify(value)) } catch {}
Written(key, v) == IF storageUp THEN Serialize(v) ELSE store[key]

\* What a render throws on: query.trim() when query is no string, and, once
\* the list has a record, category.toLowerCase() when category is no string
RenderThrows(q, cat, lst) == q.t # "str" \/ (lst # <<>> /\ cat.t # "str")

-----------------------------------------------------------------------------
(* The load effect (part_000 lines 248-275) *)

\* A response body as res.json() reads it: text that does not parse
\* ("invalid"), or the parsed value: an array of items, an object (with its
\* apps field: "missing", or a value), null, a number, a string.
Json(t, items, field) == [t |-> t, items |-> items, field |-> field]
NoField == [t |-> "missing", items |-> <<>>]

Lists == {<<>>} \cup Catalogs(MaxApps)

Bodies ==
    {Json("arr", l, NoField) : l \in Lists}
    \cup {Json("obj", <<>>, [t |-> "arr", items |-> l]) : l \in Lists}
    \cup {Json("obj", <<>>, [t |-> k, items |-> <<>>]) :
            k \in {"missing", "null", "str", "obj"}}
    \cup {Json(k, <<>>, NoField) : k \in {"null", "num", "str", "invalid"}}

\* What the fetch settles with: a rejection, or a response
Responses ==
    {[ok |-> FALSE, kind |-> "reject", body |-> Json("invalid", <<>>, NoField)]}
    \cup {[ok |-> ok, kind |-> "response", body |-> b] : ok \in BOOLEAN, b \in Bodies}

\* The list read off an array body only, the apps field of an object ignored
ListOf_ArrayOnly(data) == IF data.t = "arr" THEN data.items ELSE <<>>

\* Array.isArray(data) ? data : Array.isArray(data?.apps) ? data.apps : []
ListOf(data) ==
    IF data.t = "arr" THEN data.items
    ELSE IF data.t = "obj" /\ data.field.t = "arr" THEN data.field.items
    ELSE <<>>

\* The set call without its guard
UnlessCancelled_Unguarded(flag, current, new) == new

\* if (!cancelled) set(...): the value a piece of state has after the call
UnlessCancelled(flag, current, new) == IF flag THEN current ELSE new

\* The catch block
Catch ==
    /\ apps' = UnlessCancelled(cancelled, apps, Apps(FALLBACK_APPS))
    /\ loadError' = UnlessCancelled(cancelled, loadError, TRUE)

\* The render that follows setApps recomputes the memo of apps and derives
\* the pipeline
Rerender ==
    /\ categories' = Categories(apps'.list)
    /\ crashed' = (crashed \/ RenderThrows(query, category, apps'.list))

-----------------------------------------------------------------------------
(* The component's life: mount, the load's steps, set calls, unmount *)

KeyValue(key, q, s, v, c) ==
    CASE key = "appsHub:query" -> q
      [] key = "appsHub:sort" -> s
      [] key = "appsHub:view" -> v
      [] key = "appsHub:category" -> c

\* The page is opened: the four initializers read the store and the first
\* render derives the pipeline from them (apps is null).  Unless the render
\* threw, the effects run: each value is written back, and the load starts
\* (setLoadError(null), fetch).
Mount ==
    /\ ~mounted /\ ~crashed /\ loadPc = "idle" /\ sessions < MaxSessions
    /\ mounted' = TRUE
    /\ sessions' = sessions + 1
    /\ query' = ReadInitial("appsHub:query")
    /\ sort' = ReadInitial("appsHub:sort")
    /\ view' = ReadInitial("appsHub:view")
    /\ category' = ReadInitial("appsHub:category")
    /\ crashed' = RenderThrows(query', category', <<>>)
    /\ store' = IF crashed' THEN store
                ELSE [k \in KEYS |->
                        Written(k, KeyValue(k, query', sort', view', category'))]
    /\ loadPc' = IF crashed' THEN "idle" ELSE "fetch"
    /\ apps' = NoApps /\ loadError' = FALSE /\ cancelled' = FALSE
    /\ categories' = Categories(<<>>)
    /\ UNCHANGED <<response, storageUp, urlVars>>

\* await fetch(...) settles; if (!res.ok) throw
FetchSettle ==
    /\ loadPc = "fetch"
    /\ \E r \in Responses :
        /\ response' = r
        /\ IF r.kind = "reject" \/ ~r.ok
           THEN Catch /\ loadPc' = "done"
           ELSE loadPc' = "json" /\ UNCHANGED <<apps, loadError>>
    /\ Rerender
    /\ UNCHANGED <<cancelled, mounted, sessions, query, sort, view, category,
                   store, storageUp, urlVars>>

\* await res.json() settles; the list is read off the data; an empty list
\* throws; if (!cancelled) setApps(list)
JsonSettle ==
    /\ loadPc = "json"
    /\ loadPc' = "done"
    /\ IF response.body.t = "invalid" \/ Len(ListOf(response.body)) = 0
       THEN Catch
       ELSE /\ apps' = UnlessCancelled(cancelled, apps, Apps(ListOf(response.body)))
            /\ UNCHANGED loadError
    /\ Rerender
    /\ UNCHANGED <<cancelled, mounted, sessions, response, query, sort, view,
                   category, store, storageUp, urlVars>>

\* The component unmounts while the page lives on: the effect's cleanup
Teardown ==
    /\ mounted /\ ~cancelled
    /\ cancelled' = TRUE
    /\ mounted' = FALSE
    /\ UNCHANGED <<apps, loadError, loadPc, response, sessions, uiVars, store,
                   storageUp, urlVars>>

\* A set call with a new value, the render and the effect that follow it
SetQuery(v) ==
    /\ mounted /\ ~crashed /\ v # query
    /\ query' = v
    /\ crashed' = RenderThrows(v, category, list)
    /\ store' = [store EXCEPT !["appsHub:query"] = Written("appsHub:query", v)]
    /\ UNCHANGED <<loaderVars, sort, view, category, categories, storageUp, urlVars>>

SetSort(v) ==
    /\ mounted /\ ~crashed /\ v # sort
    /\ sort' = v
    /\ store' = [store EXCEPT !["appsHub:sort"] = Written("appsHub:sort", v)]
    /\ UNCHANGED <<loaderVars, query, view, category, categories, crashed,
                   storageUp, urlVars>>

SetView(v) ==
    /\ mounted /\ ~crashed /\ v # view
    /\ view' = v
    /\ store' = [store EXCEPT !["appsHub:view"] = Written("appsHub:view", v)]
    /\ UNCHANGED <<loaderVars, query, sort, category, categories, crashed,
                   storageUp, urlVars>>

SetCategory(v) ==
    /\ mounted /\ ~crashed /\ v # category
    /\ category' = v
    /\ crashed' = RenderThrows(query, v, list)
    /\ store' = [store EXCEPT !["appsHub:category"] = Written("appsHub:category", v)]
    /\ UNCHANGED <<loaderVars, query, sort, view, categories, storageUp, urlVars>>

\* The page is closed: everything in memory is gone and the store stays.
\* The four values keep what the session ended with until the next Mount
\* overwrites them all.
CloseSession ==
    /\ mounted
    /\ mounted' = FALSE
    /\ apps' = NoApps /\ loadError' = FALSE /\ cancelled' = FALSE
    /\ loadPc' = "idle" /\ response' = NoResponse
    /\ categories' = <<ALL>> /\ crashed' = FALSE
    /\ UNCHANGED <<sessions, query, sort, view, category, store, storageUp,
                   urlVars>>

-----------------------------------------------------------------------------
(* SpecLoad: one mount, every response, a teardown at any moment *)

InitLoad == LoaderIdle /\ UiIdle /\ StoreIdle /\ UrlIdle

NextLoad == Mount \/ FetchSettle \/ JsonSettle \/ Teardown

SpecLoad == InitLoad /\ [][NextLoad]_vars

\* C1: once the cleanup has set the cancellation flag, no step changes the
\* catalog or the advisory message, however the fetch completes.
C1_NoUpdateAfterTeardown ==
    [][cancelled => (apps' = apps /\ loadError' = loadError)]_vars

\* A fetch completed with a valid list after the teardown, and nothing was applied.
C1_Witness ==
    /\ cancelled /\ loadPc = "done" /\ response.kind = "response" /\ response.ok
    /\ response.body.t = "arr" /\ response.body.items # <<>>
    /\ apps = NoApps /\ loadError = FALSE

\* The success condition of the load: a success status and a body that is
\* a non-empty array or an object whose apps field is a non-empty array
RemoteList(r) ==
    IF r.kind = "response" /\ r.ok /\ r.body.t = "arr" THEN r.body.items
    ELSE IF r.kind = "response" /\ r.ok /\ r.body.t = "obj" /\ r.body.field.t = "arr"
         THEN r.body.field.items
    ELSE <<>>

\* C2: a load that completed without being cancelled leaves exactly the
\* remote sequence and no advisory message when the response met the
\* success condition, and exactly the built-in list with the advisory
\* message in every other case.
C2_RemoteOrFallback ==
    (loadPc = "done" /\ ~cancelled) =>
        IF RemoteList(response) # <<>>
        THEN apps = Apps(RemoteList(response)) /\ ~loadError
        ELSE apps = Apps(FALLBACK_APPS) /\ loadError

\* An object body with a non-empty apps array was loaded.
C2_Witness ==
    /\ loadPc = "done" /\ ~cancelled /\ response.body.t = "obj"
    /\ apps.list = response.body.field.items /\ apps.list # <<>> /\ ~loadError

-----------------------------------------------------------------------------
(* SpecPersist: sessions of set calls over a working store *)

PersistQueries ==
    { <<>>, <<" ">>, <<"a", QUOTE>>, <<BACKSLASH, "n">>, <<"t", "\n", "h">> }

CategoryPool == { ALL, <<"t", "2">>, UNCATEGORIZED }

SortModes == { Str(SORT_NAME), Str(SORT_CATEGORY) }
ViewModes == { Str(VIEW_GROUPED), Str(VIEW_FLAT) }

NextPersist ==
    \/ Mount
    \/ \E q \in PersistQueries : SetQuery(Str(q))
    \/ \E m \in SortModes : SetSort(m)
    \/ \E m \in ViewModes : SetView(m)
    \/ \E c \in CategoryPool : SetCategory(Str(c))
    \/ CloseSession

SpecPersist == InitLoad /\ [][NextPersist]_vars

\* C4: a cold start gives each of the four fields the value the session
\* before ended with (the last value set, the empty query included), and
\* the stated default to a field with no entry in the store; a set call
\* changes the value in memory and in the store of its own field only.
C4_ChoicesSurvive ==
    [][ /\ (~mounted /\ mounted') =>
              /\ query' = query /\ sort' = sort
              /\ view' = view /\ category' = category
              /\ \A k \in KEYS :
                    store[k] = ABSENT =>
                        KeyValue(k, query', sort', view', category') = Initial(k)
        /\ (mounted /\ mounted') =>
              \A k \in KEYS :
                  KeyValue(k, query', sort', view', category')
                      # KeyValue(k, query, sort, view, category) =>
                  \A o \in KEYS \ {k} :
                      /\ KeyValue(o, query', sort', view', category')
                            = KeyValue(o, query, sort, view, category)
                      /\ store'[o] = store[o]
      ]_vars

\* The second session started with a query and a sort mode set in the first.
C4_Witness ==
    /\ sessions = 2 /\ mounted /\ loadPc = "fetch"
    /\ query = Str(<<"a", QUOTE>>) /\ sort = Str(SORT_CATEGORY)
    /\ view = Str(VIEW_FLAT) /\ category = Str(<<"t", "2">>)

-----------------------------------------------------------------------------
(* SpecColdStart: the page opened over every content of the store *)

\* What the store may hold under a key: nothing, the empty text, JSON of
\* another type, a string outside every enum, text that is no JSON, and a
\* value the page itself wrote
StoredTexts(key) ==
    { ABSENT, <<>>, <<"n", "u", "l", "l">>, <<"2", "1">>, <<"{">>,
      Quoted(<<"z">>),
      Quoted(CASE key = "appsHub:query" -> <<"a">>
               [] key = "appsHub:sort" -> SORT_CATEGORY
               [] key = "appsHub:view" -> VIEW_FLAT
               [] key = "appsHub:category" -> <<"t", "2">>) }

InitColdStart ==
    /\ LoaderIdle /\ UiIdle /\ UrlIdle
    /\ storageUp \in BOOLEAN
    /\ store \in {f \in [KEYS -> UNION {StoredTexts(k) : k \in KEYS}] :
                    \A k \in KEYS : f[k] \in StoredTexts(k)}

NextColdStart ==
    \/ Mount
    \/ \E q \in PersistQueries : SetQuery(Str(q))
    \/ CloseSession

SpecColdStart == InitColdStart /\ [][NextColdStart]_vars

\* C3: whatever the store holds at the cold start, the page is up with a
\* string for the query and the category filter, a sort mode in {name,
\* category} and a view mode in {grouped, flat}, and no render threw.
C3_ValidOrDefault ==
    mounted =>
        /\ ~crashed
        /\ query.t = "str" /\ category.t = "str"
        /\ sort \in SortModes /\ view \in ViewModes

-----------------------------------------------------------------------------
(* SpecPipe: the page with its catalog loaded (or still loading), under *)
(* every choice of query, sort mode, view mode and category filter      *)

QueryPool ==
    { <<>>, <<" ">>, <<"z">>, <<"S", "T">>, <<" ", "b">>,
      <<"t", "\n", "\n", "h">> }

InitPipe ==
    /\ mounted = TRUE /\ sessions = 1 /\ cancelled = FALSE /\ loadError = FALSE
    /\ \/ apps = NoApps /\ loadPc = "fetch" /\ response = NoResponse
       \/ \E c \in Catalogs(MaxApps) :
            /\ apps = Apps(c) /\ loadPc = "done"
            /\ response = [ok |-> TRUE, kind |-> "response",
                           body |-> Json("arr", c, NoField)]
    /\ query = Str(<<>>) /\ sort = Str(SORT_NAME)
    /\ view = Str(VIEW_GROUPED) /\ category = Str(ALL)
    /\ categories = Categories(apps.list) /\ crashed = FALSE
    /\ storageUp = TRUE
    /\ store = [k \in KEYS |-> Serialize(Initial(k))]
    /\ UrlIdle

NextPipe ==
    \/ \E q \in QueryPool : SetQuery(Str(q))
    \/ \E m \in SortModes : SetSort(m)
    \/ \E m \in ViewModes : SetView(m)
    \/ \E c \in CategoryPool : SetCategory(Str(c))

SpecPipe == InitPipe /\ [][NextPipe]_vars

\* The partitions one after the other
Flatten(groups) ==
    LET cat[k \in 0..Len(groups)] ==
            IF k = 0 THEN <<>> ELSE cat[k - 1] \o groups[k].items
    IN  cat[Len(groups)]

\* C5: under the category sort the partitions of Grouped, one after the
\* other, are Sorted, record for record.
C5_FlattenIsSorted ==
    sort = Str(SORT_CATEGORY) => Flatten(grouped) = normalized

\* The searchable fields of a record
Fields(a) ==
    { a.title, IF a.description = Absent THEN <<>> ELSE a.description,
      a.url, getHostname(a.url), getSubdomainForSort(a.url) }

\* q is a substring of a searchable field of a, whatever the case
FoundIn(a, q) ==
    \E f \in Fields(a) : includes(toLowerCase(f), toLowerCase(q))

\* C6 as stated: a non-empty query found in no searchable field of any
\* record leaves Filtered and Grouped empty.
C6_NotFoundIsEmpty ==
    (query.s # <<>> /\ \A i \in 1..Len(list) : ~FoundIn(list[i], query.s))
        => (normalized = <<>> /\ grouped = <<>>)

\* C6 amended: a query whose trimmed form is non-empty, holds no line
\* break and is found in no searchable field of any record leaves Filtered
\* and Grouped empty.
C6_TrimmedNotFoundIsEmpty ==
    LET q == trim(query.s)
    IN  (/\ q # <<>>
         /\ \A i \in 1..Len(q) : q[i] # "\n"
         /\ \A i \in 1..Len(list) : ~FoundIn(list[i], q))
            => (normalized = <<>> /\ grouped = <<>>)

\* A query found nowhere emptied a loaded catalog of three records.
C6_Witness ==
    /\ Len(list) = 3 /\ query.s = <<"z">> /\ category.s = ALL
    /\ normalized = <<>> /\ grouped = <<>>

\* C7: Grouped is a partition of Sorted by category key: no partition is
\* empty, no two have the same key, each holds exactly the records of
\* Sorted with its key, in the order of Sorted, and every record of Sorted
\* is in one of them; the partitions hold as many records as Sorted.
C7_GroupedPartitionsSorted ==
    LET n == normalized
        g == Grouped(n)
    IN  /\ \A i \in 1..Len(g) : g[i].items # <<>>
        /\ \A i, j \in 1..Len(g) : i # j => g[i].key # g[j].key
        /\ \A i \in 1..Len(g) :
              g[i].items = SelectSeq(n, LAMBDA a : CategoryKey(a) = g[i].key)
        /\ \A k \in 1..Len(n) : \E i \in 1..Len(g) : g[i].key = CategoryKey(n[k])
        /\ Len(Flatten(g)) = Len(n)

\* Three records fell into two partitions, one for the records with no category.
C7_Witness ==
    /\ Len(normalized) = 3 /\ Len(grouped) = 2
    /\ \E i \in 1..2 : grouped[i].key = UNCATEGORIZED
    /\ \E i \in 1..2 : Len(grouped[i].items) = 2

\* The options are the sentinel and then the distinct category keys of the
\* whole catalog, each once, ascending; the sentinel alone with no catalog
OptionsOfCatalog ==
    LET keys == SubSeq(categories, 2, Len(categories))
    IN  /\ Len(categories) >= 1 /\ categories[1] = ALL
        /\ \A i, j \in 1..Len(keys) : i # j => keys[i] # keys[j]
        /\ {keys[i] : i \in 1..Len(keys)}
              = {CategoryKey(list[i]) : i \in 1..Len(list)}
        /\ \A i, j \in 1..Len(keys) :
              i < j => localeCompare(keys[i], keys[j], FALSE) < 0
        /\ apps.isNull => categories = <<ALL>>

\* C8: categoryOptions is the sentinel and then one entry for each distinct
\* category key of the whole unfiltered catalog (no category counted as the
\* uncategorized key), in ascending order, none twice; it is the sentinel
\* alone while there is no catalog; and no change of the query, the
\* category filter, the sort mode or the view mode changes it.
C8_CategoryOptions ==
    /\ []OptionsOfCatalog
    /\ [][apps' = apps => categories' = categories]_vars

\* The options list four categories while a query and a filter leave one record.
C8_Witness ==
    /\ Len(categories) = 4 /\ Len(list) = 3
    /\ query.s = <<"S", "T">> /\ category.s = <<"t", "2">>
    /\ view = Str(VIEW_FLAT) /\ Len(normalized) = 1

\* a comes before b in the catalog
Before(a, b) ==
    \E i, j \in 1..Len(list) : i < j /\ list[i] = a /\ list[j] = b

FoldedSortKey(a) == toLowerCase(getSubdomainForSort(a.url))
FoldedCategory(a) == toLowerCase(CategoryKey(a))

\* C9: Sorted holds the records of Filtered, in non-descending order of the
\* folded sort key (name), or of the folded category key and, among records
\* of equal category key, of the folded sort key (category); records whose
\* keys compare equal keep the order of the catalog.
C9_SortedStable ==
    LET n == normalized
        f == Filtered(list, query.s, category.s)
        byName(a, b) == localeCompare(FoldedSortKey(a), FoldedSortKey(b), TRUE)
        byCat(a, b) == localeCompare(FoldedCategory(a), FoldedCategory(b), TRUE)
    IN  /\ Len(n) = Len(f)
        /\ {n[i] : i \in 1..Len(n)} = {f[i] : i \in 1..Len(f)}
        /\ \A i, j \in 1..Len(n) : i < j =>
              IF sort = Str(SORT_NAME)
              THEN /\ byName(n[i], n[j]) <= 0
                   /\ byName(n[i], n[j]) = 0 => Before(n[i], n[j])
              ELSE /\ byCat(n[i], n[j]) <= 0
                   /\ FoldedCategory(n[i]) = FoldedCategory(n[j])
                        => byName(n[i], n[j]) <= 0
                   /\ (byCat(n[i], n[j]) = 0 /\ byName(n[i], n[j]) = 0)
                        => Before(n[i], n[j])

-----------------------------------------------------------------------------
(* SpecUrl: getSubdomainForSort applied to the URL strings of the model *)

\* All sequences over S of length 1..n
SeqsUpTo(S, n) == UNION {[1..k -> S] : k \in 1..n}

LabelPool ==
    { <<"a">>, <<"S", "t">>, <<"h", "u", "n", "y">>,
      <<"x", "h", "u", "n", "y">>, <<"d", "e", "v">> }

\* [scheme]label.label...[/x]
UrlInputs ==
    { scheme \o join(labels, ".") \o path :
        scheme \in {<<>>, HTTPS \o <<"/", "/">>},
        labels \in SeqsUpTo(LabelPool, MaxLabels),
        path \in {<<>>, <<"/", "x">>} }

InitUrl ==
    /\ urlIn \in UrlInputs /\ urlOut = NoResult
    /\ LoaderIdle /\ UiIdle /\ StoreIdle

ComputeSortKey ==
    /\ ~urlOut.done
    /\ urlOut' = [done |-> TRUE, value |-> getSubdomainForSort(urlIn)]
    /\ UNCHANGED <<urlIn, loaderVars, uiVars, storeVars>>

NextUrl == ComputeSortKey

SpecUrl == InitUrl /\ [][NextUrl]_vars

\* The labels of a host that is the root domain or a subdomain of it end
\* with the root domain's labels.
UnderRootDomain(host) ==
    LET labels == split(host, ".")
        root == split(ROOT_DOMAIN, ".")
    IN  /\ Len(labels) >= Len(root)
        /\ SubSeq(labels, Len(labels) - Len(root) + 1, Len(labels)) = root

\* C10: SortKey(url) is the first label of a host with at least 3 labels
\* that lies under the root domain, the full host of every other host (the
\* apex, a foreign domain, also one whose last labels merely end with the
\* root domain's text), and the raw input when url does not parse.
C10_SortKeyByLabels ==
    urlOut.done =>
        LET parsed == ParseURL(urlIn)
            host == parsed.hostname
        IN  urlOut.value =
                IF ~parsed.ok THEN urlIn
                ELSE IF UnderRootDomain(host) /\ Len(split(host, ".")) >= 3
                     THEN split(host, ".")[1]
                     ELSE host

=============================================================================
